---- MODULE Spec2Model ----
(***************************************************************************)
(* Model of the setup sequence of the `sd` command-line tool:              *)
(*   Execute -> Setup / SetupAndWaitForPod -> finishSetupAndSetApplication *)
(*   Name -> CreateImageStreamTemplate and the other provisioning steps.   *)
(* One run of the tool is a sequential program; pc is its position.  The   *)
(* cluster and the command line are the environment.                       *)
(***************************************************************************)
EXTENDS Integers, Sequences, FiniteSets, TLC

\* ---------------------------------------------------------------- bounds
MaxImages == 2      \* longest image list handed to CreateImageStreamTemplate
MaxRuns == 2        \* number of successive invocations of the tool

\* ------------------------------------------------------- input universes
ImageNames == {"supervisord", "java-s2i"}
FlagAppNames == {"", "flagapp"}
ManifestNames == {"", "mfapp"}
DirectoryName == "projdir"
ManifestNamespace == "mfns"
CurrentProject == "ns1"
NamespaceFlags == {"", "ns2"}
KubeconfigFlags == {"", "/tmp/kubecfg"}
MasterurlFlags == {"", "https://master:8443"}
LabeledDCLists == {<< >>, <<"dc1">>, <<"dc2", "dc1">>}
OtherKinds == {"pvc", "dc", "service", "route"}
ExistingKindSets == {{}, {"dc", "service"}, OtherKinds}
Commands == {"Setup", "SetupAndWaitForPod"}

\* config.HomeKubePath(): the default credentials file under $HOME
HomeKubePath == "/home/user/.kube/config"

\* types.Image value built by CreateTypeImage
CreateTypeImage(name, repo, annotationCmd) ==
    [Name |-> name, Repo |-> repo, AnnotationCmds |-> annotationCmd]

ZeroImage == CreateTypeImage("", "", FALSE)

\* zero value of types.Application
ZeroApplication == [Name |-> "", Namespace |-> "", Image |-> ZeroImage]

\* zero value of config.Tool
ZeroTool ==
    [Application |-> ZeroApplication,
     KubeConfig |-> [Config |-> "", MasterURL |-> ""],
     RestConfig |-> "nil",
     Clientset |-> "nil"]

RECURSIVE SeqsUpTo(_, _)
SeqsUpTo(S, n) ==
    IF n = 0 THEN {<< >>}
    ELSE LET shorter == SeqsUpTo(S, n - 1)
         IN shorter \cup {Append(s, x) : s \in {t \in shorter : Len(t) = n - 1}, x \in S}

ImageLists ==
    {[k \in 1..Len(s) |-> CreateTypeImage(s[k], "registry/" \o s[k], FALSE)] :
        s \in SeqsUpTo(ImageNames, MaxImages)}

\* the command lines considered: at most one of the two cluster-access
\* flags is given
FlagSets ==
    {f \in [application : FlagAppNames, namespace : NamespaceFlags,
            kubeconfig : KubeconfigFlags, masterurl : MasterurlFlags] :
        f.kubeconfig = "" \/ f.masterurl = ""}

Manifests ==
    {[state |-> "absent", name |-> "", namespace |-> ""],
     [state |-> "malformed", name |-> "", namespace |-> ""]}
    \cup {[state |-> "present", name |-> n, namespace |-> ManifestNamespace] :
            n \in ManifestNames}

VARIABLES
    pc,         \* position of the running process
    exitCode,   \* -1 while running, else the process exit status
    run,        \* ordinal of the current invocation
    cmd,        \* the entry point the sub-command used, once it has returned
    flags,      \* command-line flags: application, namespace, kubeconfig, masterurl
    manifest,   \* the MANIFEST file of the working directory
    images,     \* images handed to CreateImageStreamTemplate
    cluster,    \* resources held by the cluster
    tool,       \* the config.Tool being built by Setup
    appCfg,     \* CreateImageStreamTemplate: local copy of the Application
    idx,        \* CreateImageStreamTemplate: loop position in images
    imageClient,\* CreateImageStreamTemplate: "ok" or "nil" image client
    dc,         \* finishSetupAndSetApplicationName: local dc
    pod,        \* SetupAndWaitForPod: the pod returned by the watch
    restArgs,   \* arguments BuildConfigFromFlags was called with
    calls,      \* history: create calls issued by the current run, in order
    created,    \* history: resources created by this and earlier runs
    steps,      \* history: steps of the current run that have started, in order
    finished,   \* history: steps of the current run that have completed, in order
    svcArg,     \* the DeploymentConfig handed to CreateServiceTemplate
    failure,    \* history: the first step of the current run that failed, or ""
    startCluster \* history: the cluster as it was when the current run began

vars == <<pc, exitCode, run, cmd, flags, manifest, images, cluster, tool,
          appCfg, idx, imageClient, dc, pod, restArgs, calls, created, steps,
          finished, svcArg, failure, startCluster>>

\* `oc project -q <namespace>`: switches to the namespace when one is given
\* and prints the project now current
ProjectQuery(namespace) == IF namespace # "" THEN namespace ELSE CurrentProject

\* BuildConfigFromFlags has not been called yet
NoArgs == [masterUrl |-> "none", kubeconfigPath |-> "none"]

InitialCluster(ns, isNames, dcList, kinds) ==
    [imagestreams |-> {<<ns, n>> : n \in isNames},
     labeledDCs |-> dcList,
     existing |-> kinds]

Init ==
    /\ pc = "Execute"
    /\ exitCode = -1
    /\ run = 1
    /\ cmd = "none"
    /\ flags \in FlagSets
    /\ manifest \in Manifests
    /\ images \in ImageLists
    /\ \E isNames \in SUBSET ImageNames, dcList \in LabeledDCLists,
          kinds \in ExistingKindSets :
            cluster = InitialCluster(ProjectQuery(flags.namespace), isNames, dcList, kinds)
    /\ tool = ZeroTool
    /\ appCfg = ZeroApplication
    /\ idx = 0
    /\ imageClient = "nil"
    /\ dc = ""
    /\ pod = "nil"
    /\ restArgs = NoArgs
    /\ calls = << >>
    /\ created = {}
    /\ steps = << >>
    /\ finished = << >>
    /\ failure = ""
    /\ svcArg = ""
    /\ startCluster = cluster

\* ------------------------------------------------------------ exit paths
\* log.Fatal / log.Fatalf (logrus) and checkError end the process with os.Exit(1)
FatalExit == 1
\* an unrecovered Go panic ends the process with status 2
PanicExit == 2
\* the sub-command returned normally
NormalExit == 0

\* checkError(err, context): exits with 1 when err is not nil, else returns
checkError(err) == IF err # "nil" THEN FatalExit ELSE -1

Errs == {"nil", "error"}

Has(seq, x) == \E k \in DOMAIN seq : seq[k] = x

\* the step completed and control moves on
Ok(step, next) ==
    /\ pc' = next
    /\ steps' = IF steps # << >> /\ steps[Len(steps)] = step THEN steps ELSE Append(steps, step)
    /\ finished' = Append(finished, step)
    /\ UNCHANGED <<exitCode, failure>>

\* the step failed and the process ended with the given status
Fail(step, code) ==
    /\ pc' = "exited"
    /\ exitCode' = code
    /\ steps' = IF steps # << >> /\ steps[Len(steps)] = step THEN steps ELSE Append(steps, step)
    /\ failure' = IF failure = "" THEN step ELSE failure
    /\ UNCHANGED finished

\* --------------------------------------------------------------- Execute
\* rootCmd.Execute(): a command-line error is handed to checkError; otherwise
\* the invoked sub-command enters Setup with a fresh config.Tool
Execute ==
    /\ pc = "Execute"
    /\ \E err \in Errs :
        IF checkError(err) # -1
        THEN Fail("Execute", checkError(err))
        ELSE Ok("Execute", "parseManifest")
    /\ tool' = ZeroTool
    /\ UNCHANGED <<run, cmd, flags, manifest, images, cluster, appCfg, idx,
                   imageClient, dc, pod, restArgs, calls, created, svcArg, startCluster>>

\* ----------------------------------------------------------------- Setup
\* buildpack.ParseManifest(path): zero Application when the file is absent,
\* a parse error when it is malformed, else the decoded Application
ParseManifest(m) ==
    CASE m.state = "absent" -> [err |-> "nil", app |-> ZeroApplication]
      [] m.state = "malformed" -> [err |-> "error", app |-> ZeroApplication]
      [] OTHER -> [err |-> "nil",
                   app |-> [Name |-> m.name, Namespace |-> m.namespace, Image |-> ZeroImage]]

\* tool.Application = parseManifest()
parseManifest ==
    /\ pc = "parseManifest"
    /\ LET r == ParseManifest(manifest)
       IN IF r.err # "nil"
          THEN /\ Fail("parseManifest", FatalExit)
               /\ UNCHANGED tool
          ELSE /\ tool' = [tool EXCEPT !.Application = r.app]
               /\ Ok("parseManifest", "getK8Config")
    /\ UNCHANGED <<run, cmd, flags, manifest, images, cluster, appCfg, idx,
                   imageClient, dc, pod, restArgs, calls, created, svcArg, startCluster>>

\* the config.Kube built by getK8Config: only the kubeconfig flag is read;
\* MasterURL keeps the zero value of config.Kube{}
K8Config(kubeCfgPath, masterurl) ==
    [Config |-> IF kubeCfgPath = "" THEN HomeKubePath ELSE kubeCfgPath,
     MasterURL |-> ""]

\* tool.KubeConfig = getK8Config(*rootCmd)
getK8Config ==
    /\ pc = "getK8Config"
    /\ tool' = [tool EXCEPT !.KubeConfig = K8Config(flags.kubeconfig, flags.masterurl)]
    /\ Ok("getK8Config", "namespace")
    /\ UNCHANGED <<run, cmd, flags, manifest, images, cluster, appCfg, idx,
                   imageClient, dc, pod, restArgs, calls, created, svcArg, startCluster>>

\* variant: a namespace read from the MANIFEST is kept
SetNamespaceKeepManifest(app, currentNs) ==
    IF app.Namespace # "" THEN app ELSE [app EXCEPT !.Namespace = currentNs]

\* tool.Application.Namespace = currentNs
SetNamespace(app, currentNs) == [app EXCEPT !.Namespace = currentNs]

\* oc.ExecCommandAndReturn(project -q namespace); an error is fatal
resolveNamespace ==
    /\ pc = "namespace"
    /\ \E err \in Errs :
        IF err # "nil"
        THEN /\ Fail("namespace", FatalExit)
             /\ UNCHANGED tool
        ELSE /\ tool' = [tool EXCEPT !.Application =
                            SetNamespace(tool.Application, ProjectQuery(flags.namespace))]
             /\ Ok("namespace", "createKubeRestconfig")
    /\ UNCHANGED <<run, cmd, flags, manifest, images, cluster, appCfg, idx,
                   imageClient, dc, pod, restArgs, calls, created, svcArg, startCluster>>

\* the arguments of clientcmd.BuildConfigFromFlags(masterUrl, kubeconfigPath)
BuildConfigArgs(kubeCfg) ==
    [masterUrl |-> kubeCfg.MasterURL, kubeconfigPath |-> kubeCfg.Config]

\* createKubeRestconfig(kubeCfg); an error is fatal
createKubeRestconfig ==
    /\ pc = "createKubeRestconfig"
    /\ restArgs' = BuildConfigArgs(tool.KubeConfig)
    /\ \E err \in Errs :
        IF err # "nil"
        THEN /\ Fail("createKubeRestconfig", FatalExit)
             /\ UNCHANGED tool
        ELSE /\ tool' = [tool EXCEPT !.RestConfig = "restconfig"]
             /\ Ok("createKubeRestconfig", "createClientSet")
    /\ UNCHANGED <<run, cmd, flags, manifest, images, cluster, appCfg, idx,
                   imageClient, dc, pod, calls, created, svcArg, startCluster>>

\* createClientSet(kubeCfg, restCfg): the rest config handed in is used;
\* a kubernetes.NewForConfig error is fatal
createClientSet ==
    /\ pc = "createClientSet"
    /\ \E err \in Errs :
        IF err # "nil"
        THEN /\ Fail("createClientSet", FatalExit)
             /\ UNCHANGED tool
        ELSE /\ tool' = [tool EXCEPT !.Clientset = "clientset"]
             /\ Ok("createClientSet", "lookupDC")
    /\ UNCHANGED <<run, cmd, flags, manifest, images, cluster, appCfg, idx,
                   imageClient, dc, pod, restArgs, calls, created, svcArg, startCluster>>

\* --------------------------------------- finishSetupAndSetApplicationName
\* variant: the Service is created before the DeploymentConfig
ProvisionOrderSwapped == <<"resolveName", "imagestreams", "pvc", "service", "dc", "route">>

\* the provisioning steps in the order the function runs them
ProvisionOrder == <<"resolveName", "imagestreams", "pvc", "dc", "service", "route">>

\* the position control reaches when the given provisioning step returns
After(step) ==
    LET k == CHOOSE j \in 1..Len(ProvisionOrder) : ProvisionOrder[j] = step
    IN IF k < Len(ProvisionOrder) THEN ProvisionOrder[k + 1] ELSE "setupReturn"

\* variant: the last matching DeploymentConfig names the application
DcNameLast(existingDCs) == existingDCs[Len(existingDCs)]

\* dcName := existingDCs[0]
DcName(existingDCs) == existingDCs[1]

\* oc.GetNamesByLabel("dc", OdoLabelName, OdoLabelValue); an error is fatal.
\* A labeled DeploymentConfig gives the application its name and ends the
\* setup; otherwise the development pod is set up.
lookupDC ==
    /\ pc = "lookupDC"
    /\ \E err \in Errs :
        IF err # "nil"
        THEN /\ Fail("lookupDC", FatalExit)
             /\ UNCHANGED tool
        ELSE LET existingDCs == cluster.labeledDCs
             IN IF Len(existingDCs) # 0
                THEN /\ tool' = [tool EXCEPT !.Application.Name = DcName(existingDCs)]
                     /\ Ok("lookupDC", "setupReturn")
                ELSE /\ Ok("lookupDC", ProvisionOrder[1])
                     /\ UNCHANGED tool
    /\ UNCHANGED <<run, cmd, flags, manifest, images, cluster, appCfg, idx,
                   imageClient, dc, pod, restArgs, calls, created, svcArg, startCluster>>

\* variant: the MANIFEST name wins over the flag
ResolveNameManifestFirst(flagName, manifestName, directoryName) ==
    IF manifestName # "" THEN manifestName
    ELSE IF flagName # "" THEN flagName
    ELSE directoryName

\* variant: the MANIFEST name is used without the non-empty test
ResolveNameNoEmptyCheck(flagName, manifestName, directoryName) ==
    IF flagName # "" THEN flagName ELSE manifestName

\* the application name of the provision path: flag, else the name already
\* set from the MANIFEST, else the name of the current directory
ResolveName(flagName, manifestName, directoryName) ==
    IF flagName # "" THEN flagName
    ELSE IF manifestName # "" THEN manifestName
    ELSE directoryName

resolveName ==
    /\ pc = "resolveName"
    /\ tool' = [tool EXCEPT !.Application.Name =
                    ResolveName(flags.application, tool.Application.Name, DirectoryName)]
    /\ Ok("resolveName", After("resolveName"))
    /\ UNCHANGED <<run, cmd, flags, manifest, images, cluster, appCfg, idx,
                   imageClient, dc, pod, restArgs, calls, created, svcArg, startCluster>>

\* ------------------------------------------------ CreateImageStreamTemplate
\* oc.Exists(kind, name): asks the cluster, in the project oc is switched to
Exists(kind, name) ==
    IF kind = "imagestream"
    THEN <<ProjectQuery(flags.namespace), name>> \in cluster.imagestreams
    ELSE kind \in cluster.existing

\* variant: the create branch is taken whatever the existence check says
NeedsCreateAlways(exists) == TRUE

\* the else branch of the existence check is taken
NeedsCreate(exists) == ~exists

\* the namespace the ImageStream create call is sent to
CreateNamespace(appConfig, localCfg) == appConfig.Namespace

Call(kind, ns, name, app, existed, err) ==
    [kind |-> kind, ns |-> ns, name |-> name, app |-> app, existed |-> existed,
     ok |-> (err = "nil")]

\* CreateDefaultImageStreams -> CreateImageStreamTemplate(config, app, images):
\* entry of the function; the error of imageclientsetv1.NewForConfig is dropped
newImageClient ==
    /\ pc = "imagestreams"
    /\ \E err \in Errs :
        /\ imageClient' = IF err # "nil" THEN "nil" ELSE "ok"
        /\ failure' = IF err # "nil" /\ failure = "" THEN "imagestreams" ELSE failure
    /\ appCfg' = tool.Application
    /\ idx' = 1
    /\ pc' = "imagestreamLoop"
    /\ steps' = Append(steps, "imagestreams")
    /\ UNCHANGED <<exitCode, run, cmd, flags, manifest, images, cluster, tool, dc, pod,
                   restArgs, calls, created, finished, svcArg, startCluster>>

\* one iteration of the loop over images, or the return after the last one
CreateImageStreamTemplate ==
    /\ pc = "imagestreamLoop"
    /\ IF idx > Len(images)
       THEN /\ Ok("imagestreams", After("imagestreams"))
            /\ UNCHANGED <<appCfg, idx, cluster, calls, created>>
       ELSE LET img == images[idx]
                cfg == [appCfg EXCEPT !.Image = img]
                exists == Exists("imagestream", img.Name)
                ns == CreateNamespace(tool.Application, cfg)
            IN /\ appCfg' = cfg
               /\ IF ~NeedsCreate(exists)
                  THEN /\ idx' = idx + 1
                       /\ UNCHANGED <<pc, exitCode, steps, finished, failure,
                                      cluster, calls, created>>
                  ELSE \E yamlErr \in Errs, errImages \in Errs :
                        IF yamlErr # "nil" \/ imageClient = "nil"
                        THEN \* panic(errYamlParsing), or a nil image client dereferenced
                             /\ Fail("imagestreams", PanicExit)
                             /\ UNCHANGED <<idx, cluster, calls, created>>
                        ELSE /\ calls' = Append(calls, Call("imagestream", ns, cfg.Image.Name,
                                                            cfg.Name, exists, errImages))
                             /\ IF errImages # "nil"
                                THEN /\ Fail("imagestreams", FatalExit)
                                     /\ UNCHANGED <<idx, cluster, created>>
                                ELSE /\ cluster' = [cluster EXCEPT !.imagestreams =
                                                        @ \cup {<<ns, cfg.Image.Name>>}]
                                     /\ created' = created \cup
                                            {<<"imagestream", ns, cfg.Image.Name>>}
                                     /\ idx' = idx + 1
                                     /\ UNCHANGED <<pc, exitCode, steps, finished, failure>>
    /\ UNCHANGED <<run, cmd, flags, manifest, images, tool, imageClient, dc, pod,
                   restArgs, svcArg, startCluster>>

\* ------------------------------------------- the other provisioning steps
\* CreatePVC, CreateOrRetrieveDeploymentConfig, CreateServiceTemplate and
\* CreateRouteTemplate: an absent resource is created, an error is fatal
Provision(kind) ==
    /\ pc = kind
    /\ LET name == tool.Application.Name
           exists == Exists(kind, name)
       IN /\ svcArg' = IF kind = "service" THEN dc ELSE svcArg
          /\ IF exists
             THEN /\ Ok(kind, After(kind))
                  /\ dc' = IF kind = "dc" THEN name ELSE dc
                  /\ UNCHANGED <<cluster, calls, created>>
             ELSE \E err \in Errs :
                    /\ calls' = Append(calls, Call(kind, tool.Application.Namespace, name,
                                                   name, exists, err))
                    /\ IF err # "nil"
                       THEN /\ Fail(kind, FatalExit)
                            /\ UNCHANGED <<cluster, dc, created>>
                       ELSE /\ created' = created \cup
                                    {<<kind, tool.Application.Namespace, name>>}
                            /\ cluster' = [cluster EXCEPT
                                    !.existing = @ \cup {kind},
                                    !.labeledDCs = IF kind = "dc" THEN Append(@, name) ELSE @]
                            /\ dc' = IF kind = "dc" THEN name ELSE dc
                            /\ Ok(kind, After(kind))
    /\ UNCHANGED <<run, cmd, flags, manifest, images, tool, appCfg, idx, imageClient,
                   pod, restArgs, startCluster>>

CreatePVC == Provision("pvc")

CreateOrRetrieveDeploymentConfig == Provision("dc")

CreateServiceTemplate == Provision("service")

CreateRouteTemplate == Provision("route")

\* ------------------------------------------- Setup / SetupAndWaitForPod
\* return *tool: a command built on Setup goes on with its own work, one
\* built on SetupAndWaitForPod starts the watch
SetupReturn ==
    /\ pc = "setupReturn"
    /\ \E caller \in Commands :
        /\ cmd' = caller
        /\ Ok("Setup", IF caller = "SetupAndWaitForPod" THEN "waitPod" ELSE "returned")
    /\ UNCHANGED <<run, flags, manifest, images, cluster, tool, appCfg, idx,
                   imageClient, dc, pod, restArgs, calls, created, svcArg, startCluster>>

\* variant: a watch error is logged and the function returns without a pod
WaitAndGetPodErrorReturns ==
    /\ pc = "waitPod"
    /\ \E err \in Errs :
        /\ pod' = IF err # "nil" THEN pod ELSE "pod"
        /\ Ok("waitPod", "returned")
    /\ UNCHANGED <<run, cmd, flags, manifest, images, cluster, tool, appCfg, idx,
                   imageClient, dc, restArgs, calls, created, svcArg, startCluster>>

\* buildpack.WaitAndGetPod: blocks until the pod is observed or the watch
\* fails; a watch error is fatal
WaitAndGetPod ==
    /\ pc = "waitPod"
    /\ \E err \in Errs :
        IF err # "nil"
        THEN /\ Fail("waitPod", FatalExit)
             /\ UNCHANGED pod
        ELSE /\ pod' = "pod"
             /\ Ok("waitPod", "returned")
    /\ UNCHANGED <<run, cmd, flags, manifest, images, cluster, tool, appCfg, idx,
                   imageClient, dc, restArgs, calls, created, svcArg, startCluster>>

\* the sub-command finishes without error
CommandDone ==
    /\ pc = "returned"
    /\ pc' = "exited"
    /\ exitCode' = NormalExit
    /\ UNCHANGED <<run, cmd, flags, manifest, images, cluster, tool, appCfg, idx,
                   imageClient, dc, pod, restArgs, calls, created, steps, finished, svcArg,
                   failure, startCluster>>

\* the tool is invoked again with the same command line against the cluster
\* the previous invocation left behind (an invocation that ended before it
\* looked the cluster up left nothing behind and is not repeated)
Rerun ==
    /\ pc = "exited"
    /\ run < MaxRuns
    /\ Has(finished, "lookupDC")
    /\ run' = run + 1
    /\ pc' = "Execute"
    /\ exitCode' = -1
    /\ tool' = ZeroTool
    /\ appCfg' = ZeroApplication
    /\ idx' = 0
    /\ imageClient' = "nil"
    /\ dc' = ""
    /\ pod' = "nil"
    /\ restArgs' = NoArgs
    /\ steps' = << >>
    /\ finished' = << >>
    /\ failure' = ""
    /\ svcArg' = ""
    /\ startCluster' = cluster
    /\ calls' = << >>
    /\ cmd' = "none"
    /\ UNCHANGED <<flags, manifest, images, cluster, created>>

Next ==
    \/ Execute
    \/ parseManifest
    \/ getK8Config
    \/ resolveNamespace
    \/ createKubeRestconfig
    \/ createClientSet
    \/ lookupDC
    \/ resolveName
    \/ newImageClient
    \/ CreateImageStreamTemplate
    \/ CreatePVC
    \/ CreateOrRetrieveDeploymentConfig
    \/ CreateServiceTemplate
    \/ CreateRouteTemplate
    \/ SetupReturn
    \/ WaitAndGetPod
    \/ CommandDone
    \/ Rerun

Spec == Init /\ [][Next]_vars

\* every step of the sequential program that can run does run: each call
\* into the cluster returns, with a result or with an error
\* the runs with the default cluster access
InitDefaultAccess ==
    /\ Init
    /\ flags.kubeconfig = ""
    /\ flags.masterurl = ""

FairSpec == InitDefaultAccess /\ [][Next]_vars /\ WF_vars(Next)

\* ===================================================== properties checked
Count(seq, x) == Cardinality({k \in DOMAIN seq : seq[k] = x})

IsPrefix(s, t) == Len(s) <= Len(t) /\ \A k \in DOMAIN s : s[k] = t[k]

\* Setup has returned in the current invocation
SetupCompleted == Has(finished, "Setup")

\* the name the MANIFEST gives the application ("" when there is none)
ManifestName == IF manifest.state = "present" THEN manifest.name ELSE ""

\* flag > manifest > directory basename
PriorityName ==
    IF flags.application # "" THEN flags.application
    ELSE IF ManifestName # "" THEN ManifestName
    ELSE DirectoryName

\* no labeled DeploymentConfig existed when the invocation began
ProvisionPath == startCluster.labeledDCs = << >>

\* C1 (as stated): in every run of Setup that completes, Application.Name is
\* the flag value, else the MANIFEST name, else the directory basename.
C1_Original == SetupCompleted => tool.Application.Name = PriorityName

\* C1 (amended): in every run of Setup that completes on the provision path
\* (no labeled DeploymentConfig found), Application.Name is the flag value if
\* non-empty, else the MANIFEST name if non-empty, else the directory basename.
C1_PriorityOnProvisionPath ==
    (SetupCompleted /\ ProvisionPath) => tool.Application.Name = PriorityName

C1_Witness ==
    /\ SetupCompleted
    /\ ProvisionPath
    /\ flags.application = ""
    /\ ManifestName = "mfapp"
    /\ tool.Application.Name = "mfapp"

\* every resource setup looks for existed when the invocation began
AllExistAtStart ==
    /\ \A k \in DOMAIN images :
          <<ProjectQuery(flags.namespace), images[k].Name>> \in startCluster.imagestreams
    /\ OtherKinds \subseteq startCluster.existing

\* C2: an ImageStream create call is issued only after the existence check
\* for that name answered false, never for an ImageStream that exists (in the
\* cluster at the start or created by an earlier call), and an invocation
\* that finds every resource present issues no create call and leaves the
\* cluster as it found it.
C2_Idempotent ==
    /\ \A k \in DOMAIN calls :
          calls[k].kind = "imagestream" =>
            /\ ~calls[k].existed
            /\ \A j \in 1..(k - 1) :
                  (calls[j].kind = "imagestream" /\ calls[j].ns = calls[k].ns
                      /\ calls[j].name = calls[k].name) => ~calls[j].ok
    /\ \A k \in DOMAIN calls :
          calls[k].kind = "imagestream" =>
            <<calls[k].ns, calls[k].name>> \notin startCluster.imagestreams
    /\ AllExistAtStart => (calls = << >> /\ cluster = startCluster)

C2_Witness ==
    /\ run = 2
    /\ AllExistAtStart
    /\ exitCode = NormalExit
    /\ calls = << >>
    /\ Len(images) = 2
    /\ images[1] = images[2]
    /\ <<"imagestream", ProjectQuery(flags.namespace), images[1].Name>> \in created

ProvisionSteps == {"resolveName", "imagestreams", "pvc", "dc", "service", "route"}

\* C3: when the labeled-DeploymentConfig lookup returns a name, Setup names
\* the application after the first one, whatever the flag and the MANIFEST
\* say, runs no provisioning step and issues no create call; the lookup that
\* chooses between reuse and provisioning runs once per invocation.
C3_ReusePath ==
    /\ Count(steps, "lookupDC") <= 1
    /\ SetupCompleted => Count(finished, "lookupDC") = 1
    /\ (startCluster.labeledDCs # << >> /\ Has(finished, "lookupDC")) =>
          /\ tool.Application.Name = startCluster.labeledDCs[1]
          /\ calls = << >>
          /\ cluster = startCluster
          /\ \A k \in DOMAIN steps : steps[k] \notin ProvisionSteps

C3_Witness ==
    /\ SetupCompleted
    /\ startCluster.labeledDCs = <<"dc2", "dc1">>
    /\ flags.application = "flagapp"
    /\ ManifestName = "mfapp"
    /\ tool.Application.Name = "dc2"

KindRank(kind) ==
    CASE kind = "imagestream" -> 1
      [] kind = "pvc" -> 2
      [] kind = "dc" -> 3
      [] kind = "service" -> 4
      [] OTHER -> 5

\* C4: on the provision path the steps start in the order resolve name,
\* ImageStreams, PVC, DeploymentConfig, Service, Route, each one only after
\* the one before has completed; a completed Setup has run them all; every
\* create call is issued after the name is resolved and carries it; and the
\* Service step is handed the DeploymentConfig of the DeploymentConfig step.
C4_ProvisionOrder ==
    LET order == <<"resolveName", "imagestreams", "pvc", "dc", "service", "route">>
        started == SelectSeq(steps, LAMBDA x : x \in ProvisionSteps)
        completed == SelectSeq(finished, LAMBDA x : x \in ProvisionSteps)
    IN /\ IsPrefix(started, order)
       /\ IsPrefix(completed, started)
       /\ Len(started) <= Len(completed) + 1
       /\ (ProvisionPath /\ SetupCompleted) => completed = order
       /\ calls # << >> =>
            /\ Has(finished, "resolveName")
            /\ \A k \in DOMAIN calls : calls[k].app = PriorityName
       /\ \A j, k \in DOMAIN calls :
            j < k => KindRank(calls[j].kind) <= KindRank(calls[k].kind)
       /\ Has(steps, "service") =>
            /\ Has(finished, "dc")
            /\ svcArg = PriorityName
            /\ svcArg \in {cluster.labeledDCs[k] : k \in DOMAIN cluster.labeledDCs}
                  \/ "dc" \in startCluster.existing

C4_Witness ==
    /\ SetupCompleted
    /\ ProvisionPath
    /\ {calls[k].kind : k \in DOMAIN calls}
          = {"imagestream", "pvc", "dc", "service", "route"}
    /\ svcArg = tool.Application.Name

\* C5 (as stated): once a step has failed the process is aborted: no later
\* step of the sequence starts and no create call is issued after it.
C5_FailFast ==
    failure # "" => steps[Len(steps)] = failure

\* the process ended on one of the errors the exit-status rule lists (the
\* dropped image-client error is not one of them)
EndedOnListedError ==
    /\ pc = "exited"
    /\ failure # ""
    /\ ~(failure = "imagestreams" /\ imageClient = "nil")

\* C6 (as stated): a run that ends because of an error ends with exit status
\* 1, and a run ends with status 1 only because of an error.
C6_ExitStatusOne ==
    /\ EndedOnListedError => exitCode = 1
    /\ exitCode = 1 => failure # ""

\* C7: with no MANIFEST, parseManifest yields the zero Application and Setup
\* goes on; on the provision path the name is then the flag value if set,
\* else the directory basename.
C7_ManifestAbsent ==
    manifest.state = "absent" =>
        /\ failure # "parseManifest"
        /\ (Has(finished, "parseManifest") /\ ~Has(finished, "getK8Config")) =>
              tool.Application = ZeroApplication
        /\ Has(finished, "resolveName") =>
              /\ tool.Application.Name # ""
              /\ tool.Application.Name =
                    IF flags.application # "" THEN flags.application ELSE DirectoryName

C7_Witness ==
    /\ manifest.state = "absent"
    /\ flags.application = ""
    /\ SetupCompleted
    /\ Has(finished, "resolveName")
    /\ tool.Application.Name = DirectoryName

\* C8 (as stated): the REST config is built from the --kubeconfig value, or
\* the default path when it is empty, and from the --masterurl value when
\* that is non-empty.
C8_ClusterConfig ==
    restArgs # NoArgs =>
        /\ restArgs.kubeconfigPath =
              IF flags.kubeconfig # "" THEN flags.kubeconfig ELSE HomeKubePath
        /\ flags.masterurl # "" => restArgs.masterUrl = flags.masterurl

\* C9: SetupAndWaitForPod hands back a pod only after Setup has completed and
\* the pod was observed; the watch starts only after Setup; a watch error
\* ends the process without a pod; and, the cluster answering the watch with
\* the pod or an error, the wait ends.
C9_WaitForPod ==
    /\ [](pod # "nil" => (SetupCompleted /\ Has(finished, "waitPod")))
    /\ []((pc = "returned" /\ cmd = "SetupAndWaitForPod") => pod # "nil")
    /\ []((pc = "waitPod" \/ Has(steps, "waitPod")) => SetupCompleted)
    /\ [](failure = "waitPod" => (pc = "exited" /\ exitCode = 1 /\ pod = "nil"))
    /\ ((pc = "waitPod") ~> (pc = "returned" \/ pc = "exited"))

C9_Witness ==
    /\ pc = "returned"
    /\ cmd = "SetupAndWaitForPod"
    /\ pod = "pod"
    /\ ProvisionPath
    /\ calls # << >>

\* C10: once resolved, Application.Namespace is the answer of the project
\* query, whatever the MANIFEST said, and stays so; every ImageStream create
\* call goes to that namespace; CreateImageStreamTemplate works on its own
\* copy, which differs from the caller's Application in the Image field only,
\* and the caller's Application keeps its Image.
C10_Namespace ==
    /\ Has(finished, "namespace") =>
          tool.Application.Namespace = ProjectQuery(flags.namespace)
    /\ \A k \in DOMAIN calls :
          calls[k].kind = "imagestream" =>
              calls[k].ns = ProjectQuery(flags.namespace)
    /\ tool.Application.Image = ZeroImage
    /\ Has(steps, "imagestreams") =>
          [appCfg EXCEPT !.Image = ZeroImage] = tool.Application

C10_Witness ==
    /\ manifest.state = "present"
    /\ flags.namespace = "ns2"
    /\ tool.Application.Namespace = "ns2"
    /\ Has(finished, "imagestreams")
    /\ appCfg.Image # ZeroImage
    /\ \E k \in DOMAIN calls : calls[k].kind = "imagestream" /\ calls[k].ok

====
